---- MODULE Spec2Model ----
(***************************************************************************)
(* Ingestion, idempotent storage and change feed of the police-scanner     *)
(* pipeline: data.py (AudioMetadata), app.py (watcher, workers, startup,   *)
(* midnight rollover) and scanner_dashboard.py (enhanced_monitor_database).*)
(***************************************************************************)
EXTENDS Integers, Sequences, FiniteSets, Bags, TLC

\* ------------------------------------------------------------------ bounds
MaxDay == 2          \* calendar days the clock runs through
MaxCallers == 3      \* concurrent callers of the AudioMetadata API
MaxCrashes == 1      \* times the app.py process dies and is started again
MaxClients == 1      \* dashboard subscribers connected at the same time
MaxFaults == 1       \* exceptions raised inside the change-feed poll loop
MaxLegacyRows == 4   \* rows of a database written before the unique index

\* --------------------------------------------------------------- constants
NULL == "NULL"                      \* SQL NULL / Python None in a text column
NoId == 0                           \* incident_id = None
NoDate == <<>>                      \* no MM-DD-YY match / no date
Placeholder == "[Processing...]"    \* stub transcript of process_file_progressive

VARIABLES
    today,        \* index of the current calendar day (datetime.now())
    rows,         \* table audio_metadata: a set of row records
    nextId,       \* AUTOINCREMENT sequence: the next id the table hands out
    calls,        \* concurrent callers (of AudioMetadata, of handle_connect): one record each
    disk,         \* .mp3 files present in the recordings tree
    fs,           \* per file: creation order, still written, grown since last read
    seen_files,   \* app.seen_files
    mon,          \* monitor_new_files: position and the all_files it listed
    mu,           \* midnight_updater: position and the day it last woke for
    st,           \* startup(): position, its files and their process_file results
    wp,           \* wait_and_process tasks in the watcher pool (a bag)
    bg,           \* process_all_operations tasks in background_executor (a bag)
    hist,         \* per file: collaborator calls and schedulings so far
    crashes,      \* process deaths so far
    feed,         \* enhanced_monitor_database: position, its locals, its threads
    clients,      \* number of connected_clients of the dashboard
    emitted,      \* row ids sent to subscribers in a new_incidents batch
    fetched,      \* per row id: the number of fetched batches holding it
    watched,      \* row ids inserted while a subscriber was connected
    faults,       \* exceptions raised in the poll loop so far
    view          \* per row id: the content last delivered to subscribers

storeVars == <<today, rows, nextId>>
pipeVars == <<disk, fs, seen_files, mon, mu, st, wp, bg, hist, crashes>>
feedVars == <<feed, clients, emitted, fetched, watched, faults, view>>
vars == <<today, rows, nextId, calls, disk, fs, seen_files, mon, mu, st, wp, bg, hist,
          crashes, feed, clients, emitted, fetched, watched, faults, view>>

\* ------------------------------------------------------- dates and buckets
Days == 1..MaxDay

\* datetime.now() on model day d, as (month, day, year)
Calendar(d) == <<9, 17 + d, 2025>>

\* utils.getFilename / the wall-clock fallback: "M-D-YYYY"
getFilename(d) == Calendar(d)

\* app.GetPathForRecordingsToday: the folder "MM-DD-YY" (two-digit year)
GetPathForRecordingsToday(d) ==
    <<Calendar(d)[1], Calendar(d)[2], Calendar(d)[3] % 100>>

\* A file path: the dated folder it lies in (NoDate when the path holds no
\* MM-DD-YY component) and the file name, split as utils._split_parts does
\* into the system and the rest.
Path(folder, system, tag) == [folder |-> folder, system |-> system, tag |-> tag]

\* filepath IS NULL (rows of old databases; no path at hand)
NullPath == Path(NoDate, NULL, NULL)

\* AudioMetadata._extract_date_from_filepath: "09-18-25" -> "9-18-2025"
extract_date_from_filepath(fp) ==
    IF fp.folder = NoDate
    THEN NoDate
    ELSE <<fp.folder[1], fp.folder[2], 2000 + fp.folder[3]>>

\* The bucket add_metadata and get_metadata compute for a path on day d:
\* the date of the path, or failing that the wall clock.
DateCreated(fp, d) ==
    IF extract_date_from_filepath(fp) = NoDate
    THEN getFilename(d)
    ELSE extract_date_from_filepath(fp)

\* utils.get_system: the first ';'-separated part of the file name
get_system(fp) == fp.system

\* utils.get_department: the second ';'-separated part of the file name
get_department(fp) == fp.tag

\* os.path.basename(filepath)
basename(fp) == <<fp.system, fp.tag>>

\* ------------------------------------------------------------- the store
\* The values an INSERT carries (every column but id).
RowValues(fp, date, transcript, confidence, incident_type, address, geo, sv, owner, price) ==
    [ filepath          |-> fp,
      filename          |-> basename(fp),
      date_created      |-> date,
      system            |-> get_system(fp),
      department        |-> get_department(fp),
      transcript        |-> transcript,
      confidence        |-> confidence,
      incident_type     |-> IF incident_type = NULL THEN "unknown" ELSE incident_type,
      address           |-> address,
      latitude          |-> geo[1],
      longitude         |-> geo[2],
      formatted_address |-> geo[3],
      maps_link         |-> geo[4],
      streetview_url    |-> sv,
      property_owner    |-> owner,
      property_price    |-> price ]

NoGeo == <<NULL, NULL, NULL, NULL>>

\* The stub process_file_progressive inserts.
StubValues(fp, date) ==
    RowValues(fp, date, Placeholder, "0.0", "unknown", NULL, NoGeo, NULL, NULL, NULL)

\* UNIQUE INDEX ux_audio_metadata_filepath: a row with this filepath exists
ConflictMissed(rs, fp) == FALSE
Conflict(rs, fp) == \E r \in rs : r.filepath = fp

\* INSERT ... ON CONFLICT(filepath) DO NOTHING; commit.
InsertOrReplace(rs, nid, v) ==
    {r \in rs : r.filepath # v.filepath} \cup {[id |-> nid] @@ v}
InsertDoNothing(rs, nid, v) ==
    IF Conflict(rs, v.filepath) THEN rs ELSE rs \cup {[id |-> nid] @@ v}

\* cursor.rowcount of that INSERT
RowCount(rs, v) == IF Conflict(rs, v.filepath) THEN 0 ELSE 1

\* id INTEGER PRIMARY KEY AUTOINCREMENT: the sequence after an INSERT that
\* created n rows; the ids handed out so far are never handed out again.
SequenceNotKept(seq, n) == seq
sqlite_sequence(seq, n) == seq + n

\* SELECT id FROM audio_metadata WHERE filepath = ?  (fetchone)
SelectIdByFilepath(rs, fp) ==
    IF \E r \in rs : r.filepath = fp
    THEN (CHOOSE r \in rs : r.filepath = fp).id
    ELSE NoId

\* The id add_metadata returns: the existing row's id when the insert was
\* skipped, cursor.lastrowid otherwise.
AddMetadataResult(rs, fp, rowcount, lastrowid) ==
    IF rowcount = 0 THEN SelectIdByFilepath(rs, fp) ELSE lastrowid

\* get_metadata: SELECT * WHERE filepath = ? AND date_created = ? LIMIT 1
SelectByFileAndDate(rs, fp, date) ==
    {r \in rs : r.filepath = fp /\ r.date_created = date}

\* get_metadata(filename, filepath)["already_processed"] on day d
already_processed(rs, fp, d) == SelectByFileAndDate(rs, fp, DateCreated(fp, d)) # {}

\* _init_database: DELETE the rows of a duplicated non-NULL filepath except
\* the one with the greatest id; the table and index creation change no row.
MaxIdOf(rs, fp) ==
    CHOOSE m \in {r.id : r \in {x \in rs : x.filepath = fp}} :
        \A r \in rs : r.filepath = fp => r.id <= m

DedupeKeepsOldest(rs) ==
    {r \in rs :
        ~ ( /\ r.filepath # NullPath
            /\ \E x \in rs : x.filepath = r.filepath /\ x.id < r.id )}
DedupeMergedSubquery(rs) ==
    {r \in rs :
        ~ ( /\ r.filepath # NullPath
            /\ ~ ( /\ r.id = MaxIdOf(rs, r.filepath)
                   /\ Cardinality({x \in rs : x.filepath = r.filepath}) > 1 ) )}
init_database(rs) ==
    {r \in rs :
        ~ ( /\ r.filepath # NullPath
            /\ r.id # MaxIdOf(rs, r.filepath)
            /\ Cardinality({x \in rs : x.filepath = r.filepath}) > 1 )}

\* update_transcript: UPDATE ... SET transcript, confidence, address WHERE id
update_transcript(rs, id, transcript, confidence, address) ==
    { IF r.id = id
      THEN [r EXCEPT !.transcript = transcript, !.confidence = confidence,
                     !.address = address]
      ELSE r : r \in rs }

\* update_incident_type: UPDATE ... SET incident_type WHERE id
UpdateIncidentTypeNoWhere(rs, id, incident_type) ==
    { [r EXCEPT !.incident_type = incident_type] : r \in rs }
update_incident_type(rs, id, incident_type) ==
    { IF r.id = id THEN [r EXCEPT !.incident_type = incident_type] ELSE r : r \in rs }

\* update_location_info: UPDATE ... SET latitude, longitude,
\* formatted_address, maps_link WHERE id
UpdateLocationInfoReplace(rs, id, latitude, longitude, formatted_address, maps_link) ==
    { IF r.id = id
      THEN [id |-> r.id] @@
           RowValues(r.filepath, r.date_created, NULL, "0.0", "unknown", NULL,
                     <<latitude, longitude, formatted_address, maps_link>>,
                     NULL, NULL, NULL)
      ELSE r : r \in rs }
update_location_info(rs, id, latitude, longitude, formatted_address, maps_link) ==
    { IF r.id = id
      THEN [r EXCEPT !.latitude = latitude, !.longitude = longitude,
                     !.formatted_address = formatted_address,
                     !.maps_link = maps_link]
      ELSE r : r \in rs }

\* update_streetview: UPDATE ... SET streetview_url WHERE id
update_streetview(rs, id, streetview_url) ==
    { IF r.id = id THEN [r EXCEPT !.streetview_url = streetview_url] ELSE r : r \in rs }

\* update_property_info: UPDATE ... SET property_owner, property_price WHERE id
update_property_info(rs, id, property_owner, property_price) ==
    { IF r.id = id
      THEN [r EXCEPT !.property_owner = property_owner,
                     !.property_price = property_price]
      ELSE r : r \in rs }

\* ------------------------------------------------- the recordings tree
\* The files the capture process can write: one Middlesex recording in each
\* day's folder, and a recording of another system in the first day's folder.
AllFiles ==
    { Path(GetPathForRecordingsToday(d), "Middlesex", "a") : d \in Days }
    \cup { Path(GetPathForRecordingsToday(1), "Other", "c") }

\* Two Middlesex recordings in each day's folder: the recordings of the
\* enrichment specification, and the rows the ingestion process writes while
\* the dashboard runs.
FeedTags == {"a", "b"}
FeedFiles ==
    { Path(GetPathForRecordingsToday(d), "Middlesex", t) : d \in Days, t \in FeedTags }

\* Recordings of the first day that the capture process holds open and keeps
\* writing: one fewer than the watcher pool has worker threads.
GrowingTags == {"g1", "g2", "g3", "g4", "g5", "g6", "g7", "g8", "g9"}
GrowingFiles ==
    { Path(GetPathForRecordingsToday(1), "Middlesex", t) : t \in GrowingTags }

Files == AllFiles \cup FeedFiles \cup GrowingFiles

\* app.GetAllFilesForToday: the .mp3 files under today's folder
GetAllFilesForToday(files, d) ==
    {f \in files : f.folder = GetPathForRecordingsToday(d)}

\* ------------------------------------------------- collaborator results
\* api.getTranscript: None, or a dict with transcript, confidence, address;
\* "raise" stands for an exception inside the transcription try block.
TNone == [kind |-> "none", transcript |-> "", confidence |-> "0.0", address |-> NULL]
TRaise == [kind |-> "raise", transcript |-> "", confidence |-> "0.0", address |-> NULL]
TDict(t, a) == [kind |-> "dict", transcript |-> t, confidence |-> "0.91", address |-> a]

\* location_services.geocode_newton: None or (lat, lng, fa, url); url is
\* None when the result carries no place id.
GNone == [kind |-> "none", lat |-> NULL, lng |-> NULL, fa |-> NULL, url |-> NULL]
GRaise == [kind |-> "raise", lat |-> NULL, lng |-> NULL, fa |-> NULL, url |-> NULL]
GResult(fa, url) == [kind |-> "result", lat |-> "42.33", lng |-> "-71.20", fa |-> fa, url |-> url]

\* The results the collaborators return in the ingestion specification.
IngestTranscripts == {TNone, TDict("units responding", "12 main st")}
IngestLabels == {"Medical"}
IngestGeocodes == {GResult("12 Main St, Newton, MA", "maps?q=12+Main+St")}
IngestStreetViews == {"streetview?location=42.33,-71.20"}
IngestParcels == {<<"OWNER", "900000">>}

\* ------------------------------------------------- process state at start
\* last_known_id = None
NoneId == -1

\* monitoring_thread = None
NoThread == 0

\* The dashboard before its monitoring thread runs; dashboard.current_date is
\* fixed by PoliceScannerDashboard.__init__ on day d.  The Thread objects
\* created so far are numbered 1, 2, ...; alive holds the started ones.
FeedOff(d) ==
    [pc |-> "off", current_date |-> getFilename(d), last_known_id |-> NoneId,
     current_max_id |-> 0, init |-> NoneId, batch |-> {},
     monitoring_thread |-> NoThread, created |-> 0, alive |-> {}]

NoHist == [f \in Files |-> [transcribed |-> 0, scheduled |-> 0,
                            skippedScheduled |-> FALSE, early |-> FALSE,
                            submitted |-> 0, removed |-> 0]]

MonStart == [pc |-> "list", all_files |-> {}]

\* No recording has been created yet.
NoFiles == [f \in Files |-> [ctime |-> 0, open |-> FALSE, grown |-> FALSE]]

\* wait_until_file_complete returns when stable_for > 3: the size was read
\* unchanged after each of this many one-second sleeps since last_change
\* (three sleeps and the statements between them take more than 3 seconds).
QuiescenceReads == 3

\* A pool with a single worker thread.
OneWorker == Cardinality({"worker"})

\* ThreadPoolExecutor(max_workers=10) of monitor_new_files
max_workers == 10
MuStart(d) == [pc |-> "sleep", day |-> d]
StStart == [pc |-> "list", files |-> {}, pf |-> <<>>]

\* ------------------------------------------------- API callers (SpecStore)
\* Paths handed to the API directly: one inside a dated folder, one with no
\* date in it (the wall-clock fallback of add_metadata / get_metadata).
StorePaths ==
    { Path(GetPathForRecordingsToday(1), "Middlesex", "a"),
      Path(NoDate, "Middlesex", "b") }

IdleCall ==
    [pc |-> "idle", fp |-> NullPath, date |-> NoDate, day |-> 0, rowcount |-> 0,
     lastrowid |-> NoId, ret |-> NoId, created |-> FALSE, seen |-> FALSE, pday |-> 0]

Callers == 1..MaxCallers

\* What a caller hands to add_metadata: the first caller the placeholder stub
\* of process_file_progressive, the others the finished results of startup()
\* (a transcribed and located recording, or an empty transcript).
CallValues(c, fp, date) ==
    IF c = 1
    THEN StubValues(fp, date)
    ELSE IF c % 2 = 0
    THEN RowValues(fp, date, "units responding", "0.91", "Medical", "12 main st",
                   <<"42.33", "-71.20", "12 Main St, Newton, MA", "maps?q=12+Main+St">>,
                   "streetview?location=42.33,-71.20", NULL, NULL)
    ELSE RowValues(fp, date, "", "0.0", "unknown", NULL, NoGeo, NULL, NULL, NULL)

\* add_metadata, lines 227-231: the bucket is computed before the DB is touched
\* (callers are numbered in the order their calls start)
CallAddMetadata(c, fp) ==
    /\ calls[c].pc = "idle"
    /\ \A d \in Callers : d < c => calls[d].pc # "idle"
    /\ calls' = [calls EXCEPT ![c] =
                    [@ EXCEPT !.pc = "insert", !.fp = fp,
                              !.date = DateCreated(fp, today), !.day = today]]
    /\ UNCHANGED <<today, rows, nextId>>
    /\ UNCHANGED <<pipeVars, feedVars>>

\* add_metadata, lines 237-277: the INSERT and its commit
AddMetadataInsert(c) ==
    /\ calls[c].pc = "insert"
    /\ LET v == CallValues(c, calls[c].fp, calls[c].date)
           n == RowCount(rows, v)
       IN /\ rows' = InsertDoNothing(rows, nextId, v)
          /\ nextId' = sqlite_sequence(nextId, n)
          /\ calls' = [calls EXCEPT ![c] =
                          [@ EXCEPT !.pc = "result", !.rowcount = n,
                                    !.created = (n = 1),
                                    !.lastrowid = IF n = 1 THEN nextId ELSE NoId]]
    /\ UNCHANGED today
    /\ UNCHANGED <<pipeVars, feedVars>>

\* add_metadata, lines 278-298: pick the id to return
AddMetadataReturn(c) ==
    /\ calls[c].pc = "result"
    /\ calls' = [calls EXCEPT ![c] =
                    [@ EXCEPT !.pc = "returned",
                              !.ret = AddMetadataResult(rows, calls[c].fp,
                                          calls[c].rowcount, calls[c].lastrowid)]]
    /\ UNCHANGED <<today, rows, nextId>>
    /\ UNCHANGED <<pipeVars, feedVars>>

\* the caller's next statement: get_metadata(filename, filepath)
CallGetMetadata(c) ==
    /\ calls[c].pc = "returned"
    /\ calls' = [calls EXCEPT ![c] =
                    [@ EXCEPT !.pc = "done", !.pday = today,
                              !.seen = already_processed(rows, calls[c].fp, today)]]
    /\ UNCHANGED <<today, rows, nextId>>
    /\ UNCHANGED <<pipeVars, feedVars>>

\* the local day boundary passes
StoreMidnight ==
    /\ today < MaxDay
    /\ today' = today + 1
    /\ UNCHANGED <<rows, nextId, calls>>
    /\ UNCHANGED <<pipeVars, feedVars>>

\* AudioMetadata() is constructed again: _init_database re-runs
StoreReinit ==
    /\ rows' = init_database(rows)
    /\ UNCHANGED <<today, nextId, calls>>
    /\ UNCHANGED <<pipeVars, feedVars>>

StoreInit ==
    /\ today = 1
    /\ rows = {}
    /\ nextId = 1
    /\ calls = [c \in Callers |-> IdleCall]
    /\ disk = {}
    /\ fs = NoFiles
    /\ seen_files = {}
    /\ mon = MonStart
    /\ mu = MuStart(1)
    /\ st = StStart
    /\ wp = EmptyBag
    /\ bg = EmptyBag
    /\ hist = NoHist
    /\ crashes = 0
    /\ feed = FeedOff(1)
    /\ clients = 0
    /\ emitted = {}
    /\ fetched = <<>>
    /\ watched = {}
    /\ faults = 0
    /\ view = <<>>

StoreNext ==
    \/ \E c \in Callers, fp \in StorePaths : CallAddMetadata(c, fp)
    \/ \E c \in Callers : AddMetadataInsert(c)
    \/ \E c \in Callers : AddMetadataReturn(c)
    \/ \E c \in Callers : CallGetMetadata(c)
    \/ StoreMidnight
    \/ StoreReinit

SpecStore == StoreInit /\ [][StoreNext]_vars

\* ------------------------------------------- an old database (SpecLegacy)
\* The filepath column of a database written before the unique index was
\* there: NULL, or one of the two recordings of the first day.
LegacyPaths ==
    {NullPath} \cup {f \in FeedFiles : f.folder = GetPathForRecordingsToday(1)}

\* A row of such a database: the columns added later (ALTER TABLE ADD
\* COLUMN, lines 62-73) are NULL.
LegacyRow(id, fp) ==
    [id |-> id] @@
    [RowValues(Path(GetPathForRecordingsToday(1), "Middlesex", "a"), getFilename(1),
               "units responding", "0.91", "Medical", "12 main st",
               <<NULL, NULL, "12 Main St, Newton, MA", "maps?q=12+Main+St">>,
               NULL, NULL, NULL)
        EXCEPT !.filepath = fp]

\* The tables of up to MaxLegacyRows rows: ids are the primary key, any
\* number of rows may share a filepath.
LegacyTables ==
    UNION { { {LegacyRow(i, p[i]) : i \in S} : p \in [S -> LegacyPaths] } :
            S \in SUBSET (1..MaxLegacyRows) }

LegacyInit ==
    /\ today = 1
    /\ rows \in LegacyTables
    /\ nextId = MaxLegacyRows + 1
    /\ calls = [c \in Callers |-> IdleCall]
    /\ disk = {}
    /\ fs = NoFiles
    /\ seen_files = {}
    /\ mon = MonStart
    /\ mu = MuStart(1)
    /\ st = StStart
    /\ wp = EmptyBag
    /\ bg = EmptyBag
    /\ hist = NoHist
    /\ crashes = 0
    /\ feed = FeedOff(1)
    /\ clients = 0
    /\ emitted = {}
    /\ fetched = <<>>
    /\ watched = {}
    /\ faults = 0
    /\ view = <<>>

\* AudioMetadata() is constructed on the database: _init_database runs its
\* DELETE and commits; hist counts the rows it removed for each filepath.
OpenStore ==
    /\ rows' = init_database(rows)
    /\ hist' = [f \in Files |->
                   [hist[f] EXCEPT !.removed =
                       @ + Cardinality({r \in rows \ rows' : r.filepath = f})]]
    /\ UNCHANGED <<today, nextId, calls, disk, fs, seen_files, mon, mu, st, wp, bg,
                   crashes, feedVars>>

LegacyNext == OpenStore

SpecLegacy == LegacyInit /\ [][LegacyNext]_vars

\* ------------------------------------------------------------ ingestion
\* Bag helpers for the task pools.
Put(b, t) == b (+) SetToBag({t})
Take(b, t) == b (-) SetToBag({t})

\* A finished recording appears in today's folder.
FileAppears(f) ==
    /\ f \in Files \ disk
    /\ f.folder = GetPathForRecordingsToday(today)
    /\ disk' = disk \cup {f}
    /\ UNCHANGED <<storeVars, calls, fs, seen_files, mon, mu, st, wp, bg, hist, crashes, feedVars>>

\* The local day boundary passes.
Midnight ==
    /\ today < MaxDay
    /\ today' = today + 1
    /\ UNCHANGED <<rows, nextId, calls, pipeVars, feedVars>>

\* midnight_updater, line 41: Data = AudioMetadata() re-runs _init_database
MidnightReload ==
    /\ mu.pc = "sleep"
    /\ today > mu.day
    /\ rows' = init_database(rows)
    /\ mu' = [mu EXCEPT !.pc = "clear"]
    /\ UNCHANGED <<today, nextId, calls, disk, fs, seen_files, mon, st, wp, bg, hist, crashes, feedVars>>

\* midnight_updater, lines 42-43: seen_files.clear() under seen_lock
MidnightClear ==
    /\ mu.pc = "clear"
    /\ seen_files' = {}
    /\ mu' = [pc |-> "sleep", day |-> today]
    /\ UNCHANGED <<storeVars, calls, disk, fs, mon, st, wp, bg, hist, crashes, feedVars>>

\* Record that api.getTranscript starts for file f.
NoteTranscript(h, rs, f) ==
    [h EXCEPT ![f].transcribed = @ + 1,
              ![f].early = @ \/ ~ (\E r \in rs : r.filepath = f)]

\* ---- startup(): process_file for every file of today, then add_metadata
EmptyResult ==
    [result |-> "pending", transcript |-> "", confidence |-> "0.0",
     incident_type |-> "unknown", address |-> NULL, geo |-> NoGeo, sv |-> NULL]

\* startup, lines 437-449
StartupList ==
    /\ st.pc = "list"
    /\ LET files == GetAllFilesForToday(disk, today)
       IN st' = IF files = {}
                THEN [pc |-> "monitor", files |-> {}, pf |-> <<>>]
                ELSE [pc |-> "pool", files |-> files,
                      pf |-> [f \in files |-> [pc |-> "get", res |-> EmptyResult]]]
    /\ UNCHANGED <<storeVars, calls, disk, fs, seen_files, mon, mu, wp, bg, hist, crashes, feedVars>>

\* process_file, lines 297-306: skip a file that has a row or is not Middlesex
ProcessFileGet(f) ==
    /\ st.pc = "pool"
    /\ f \in st.files
    /\ st.pf[f].pc = "get"
    /\ st' = [st EXCEPT !.pf[f].pc =
                 IF already_processed(rows, f, today) \/ get_system(f) # "Middlesex"
                 THEN "skipped" ELSE "transcribe"]
    /\ UNCHANGED <<storeVars, calls, disk, fs, seen_files, mon, mu, wp, bg, hist, crashes, feedVars>>

\* process_file, lines 312-416: transcribe, classify, geocode, street view;
\* nothing is written to the store here.  result keeps what api.getTranscript
\* returned (transcription_result).
ProcessFileResult(o, label, g, sv) ==
    [result        |-> o.kind,
     transcript    |-> IF o.kind = "dict" THEN o.transcript ELSE "",
     confidence    |-> IF o.kind = "dict" THEN o.confidence ELSE "0.0",
     incident_type |-> IF o.kind = "dict" THEN label ELSE "unknown",
     address       |-> IF o.kind = "dict" THEN o.address ELSE NULL,
     geo           |-> IF o.kind = "dict" /\ o.address # NULL /\ g.kind = "result"
                       THEN <<g.lat, g.lng, IF g.fa = NULL THEN o.address ELSE g.fa, g.url>>
                       ELSE NoGeo,
     sv            |-> IF o.kind = "dict" /\ o.address # NULL /\ g.kind = "result"
                       THEN sv ELSE NULL]

ProcessFileTranscribe(f, o, label, g, sv) ==
    /\ st.pc = "pool"
    /\ f \in st.files
    /\ st.pf[f].pc = "transcribe"
    /\ hist' = NoteTranscript(hist, rows, f)
    /\ st' = [st EXCEPT !.pf[f] = [pc |-> "result",
                                   res |-> ProcessFileResult(o, label, g, sv)]]
    /\ UNCHANGED <<storeVars, calls, disk, fs, seen_files, mon, mu, wp, bg, crashes, feedVars>>

\* startup, lines 456-477: add_metadata for each result once the pool is done
StartupAddMetadata(f) ==
    /\ st.pc = "pool"
    /\ \A x \in st.files : st.pf[x].pc \in {"skipped", "result", "added"}
    /\ f \in st.files
    /\ st.pf[f].pc = "result"
    /\ LET res == st.pf[f].res
           v == RowValues(f, DateCreated(f, today), res.transcript, res.confidence,
                          res.incident_type, res.address, res.geo, res.sv, NULL, NULL)
       IN /\ rows' = InsertDoNothing(rows, nextId, v)
          /\ nextId' = sqlite_sequence(nextId, RowCount(rows, v))
    /\ st' = [st EXCEPT !.pf[f].pc = "added"]
    /\ UNCHANGED <<today, calls, disk, fs, seen_files, mon, mu, wp, bg, hist, crashes, feedVars>>

\* startup, lines 481-482: seen_files.update(files); monitor_new_files follows
StartupFinish ==
    /\ st.pc = "pool"
    /\ \A x \in st.files : st.pf[x].pc \in {"skipped", "added"}
    /\ seen_files' = seen_files \cup st.files
    /\ st' = [pc |-> "monitor", files |-> {}, pf |-> <<>>]
    /\ UNCHANGED <<storeVars, calls, disk, fs, mon, mu, wp, bg, hist, crashes, feedVars>>

\* ---- monitor_new_files
\* line 490: all_files = GetAllFilesForToday()
MonitorList ==
    /\ st.pc = "monitor"
    /\ mon.pc = "list"
    /\ mon' = [pc |-> "mark", all_files |-> GetAllFilesForToday(disk, today)]
    /\ UNCHANGED <<storeVars, calls, disk, fs, seen_files, mu, st, wp, bg, hist, crashes, feedVars>>

\* lines 493-502: under seen_lock mark the unseen files, then submit
\* wait_and_process for each of them
MonitorMark ==
    /\ st.pc = "monitor"
    /\ mon.pc = "mark"
    /\ LET new_files == mon.all_files \ seen_files
       IN /\ seen_files' = seen_files \cup new_files
          /\ wp' = wp (+) SetToBag({[fp |-> f, pc |-> "wait", stable |-> 0] :
                                       f \in new_files})
          /\ hist' = [f \in Files |->
                          IF f \in new_files
                          THEN [hist[f] EXCEPT !.submitted = @ + 1]
                          ELSE hist[f]]
    /\ mon' = [pc |-> "list", all_files |-> {}]
    /\ UNCHANGED <<storeVars, calls, disk, fs, mu, st, bg, crashes, feedVars>>

\* ---- wait_and_process / process_file_progressive
\* wait_and_process, line 422: utils.wait_until_file_complete on a recording
\* that is written no more: its reads find the same size and it returns
WaitUntilFileComplete(t) ==
    /\ t \in BagToSet(wp)
    /\ t.pc = "wait"
    /\ wp' = Put(Take(wp, t), [t EXCEPT !.pc = "get", !.stable = QuiescenceReads])
    /\ UNCHANGED <<storeVars, calls, disk, fs, seen_files, mon, mu, st, bg, hist, crashes, feedVars>>

\* process_file_progressive, lines 72-81: return None for a file that has a
\* row or is not Middlesex
ProgressiveGet(t) ==
    /\ t \in BagToSet(wp)
    /\ t.pc = "get"
    /\ wp' = IF already_processed(rows, t.fp, today) \/ get_system(t.fp) # "Middlesex"
             THEN Take(wp, t)
             ELSE Put(Take(wp, t), [t EXCEPT !.pc = "add"])
    /\ UNCHANGED <<storeVars, calls, disk, fs, seen_files, mon, mu, st, bg, hist, crashes, feedVars>>

\* The process_all_operations task submitted for a row id.
BgTask(id, fp) ==
    [id |-> id, fp |-> fp, pc |-> "transcribe", result |-> "pending",
     transcript |-> "", address |-> NULL, label |-> "pending",
     lat |-> NULL, lng |-> NULL]

\* What process_file_progressive submits after add_metadata returned:
\* lines 130-146 submit process_all_operations whatever the insert did.
SubmitBackground(b, id, fp, rowcount) == Put(b, BgTask(id, fp))

\* process_file_progressive, lines 99-154: add_metadata with the placeholder
\* stub (INSERT, then the id), then background_executor.submit
ProgressiveAdd(t) ==
    /\ t \in BagToSet(wp)
    /\ t.pc = "add"
    /\ LET v == StubValues(t.fp, DateCreated(t.fp, today))
           n == RowCount(rows, v)
           after == InsertDoNothing(rows, nextId, v)
           id == AddMetadataResult(after, t.fp, n, nextId)
       IN /\ rows' = after
          /\ nextId' = sqlite_sequence(nextId, n)
          /\ bg' = SubmitBackground(bg, id, t.fp, n)
          /\ hist' = [hist EXCEPT ![t.fp].scheduled = @ + 1,
                                  ![t.fp].skippedScheduled = @ \/ (n = 0)]
    /\ wp' = Take(wp, t)
    /\ UNCHANGED <<today, calls, disk, fs, seen_files, mon, mu, st, crashes, feedVars>>

\* ---- process_all_operations
\* lines 180-209: api.getTranscript, then update_transcript with the result
\* or with a failure sentinel
Transcribe(b, o) ==
    /\ b \in BagToSet(bg)
    /\ b.pc = "transcribe"
    /\ hist' = NoteTranscript(hist, rows, b.fp)
    /\ rows' = IF o.kind = "dict"
               THEN update_transcript(rows, b.id, o.transcript, o.confidence, o.address)
               ELSE IF o.kind = "none"
               THEN update_transcript(rows, b.id, "[Transcription Failed]", "0.0", NULL)
               ELSE update_transcript(rows, b.id, "[Transcription Error]", "0.0", NULL)
    /\ bg' = Put(Take(bg, b),
                 [b EXCEPT !.pc = "classify", !.result = o.kind,
                           !.transcript = IF o.kind = "dict" THEN o.transcript ELSE "",
                           !.address = IF o.kind = "dict" THEN o.address ELSE NULL])
    /\ UNCHANGED <<today, nextId, calls, disk, fs, seen_files, mon, mu, st, wp, crashes, feedVars>>

\* lines 211-223: classify a non-empty transcript and update_incident_type;
\* label "raise" stands for classify_incident raising, which the try block
\* around the stage catches.  The task keeps what the call gave ("skipped"
\* when there was no transcript to classify).
ClassifyAbortsOnError(b, label) ==
    /\ b \in BagToSet(bg)
    /\ b.pc = "classify"
    /\ rows' = IF b.transcript # "" /\ label # "raise"
               THEN update_incident_type(rows, b.id, label)
               ELSE rows
    /\ bg' = IF b.transcript # "" /\ label = "raise"
             THEN Take(bg, b)
             ELSE Put(Take(bg, b),
                      [b EXCEPT !.pc = "geocode",
                                !.label = IF b.transcript # "" THEN label ELSE "skipped"])
    /\ UNCHANGED <<today, nextId, calls, disk, fs, seen_files, mon, mu, st, wp, hist, crashes, feedVars>>
Classify(b, label) ==
    /\ b \in BagToSet(bg)
    /\ b.pc = "classify"
    /\ rows' = IF b.transcript # "" /\ label # "raise"
               THEN update_incident_type(rows, b.id, label)
               ELSE rows
    /\ bg' = Put(Take(bg, b),
                 [b EXCEPT !.pc = "geocode",
                           !.label = IF b.transcript # "" THEN label ELSE "skipped"])
    /\ UNCHANGED <<today, nextId, calls, disk, fs, seen_files, mon, mu, st, wp, hist, crashes, feedVars>>

\* lines 225-251, 282-285: geocode a non-empty address and
\* update_location_info; without a result the task is over
Geocode(b, g) ==
    /\ b \in BagToSet(bg)
    /\ b.pc = "geocode"
    /\ IF b.address # NULL /\ b.address # "" /\ g.kind = "result"
       THEN /\ rows' = update_location_info(rows, b.id, g.lat, g.lng,
                           IF g.fa = NULL THEN b.address ELSE g.fa, g.url)
            /\ bg' = Put(Take(bg, b),
                         [b EXCEPT !.pc = "streetview", !.lat = g.lat, !.lng = g.lng])
       ELSE /\ rows' = rows
            /\ bg' = Take(bg, b)
    /\ UNCHANGED <<today, nextId, calls, disk, fs, seen_files, mon, mu, st, wp, hist, crashes, feedVars>>

\* lines 253-263: street view URL and update_streetview; "raise" for an error
StreetView(b, sv) ==
    /\ b \in BagToSet(bg)
    /\ b.pc = "streetview"
    /\ rows' = IF sv # "raise" THEN update_streetview(rows, b.id, sv) ELSE rows
    /\ bg' = Put(Take(bg, b), [b EXCEPT !.pc = "property"])
    /\ UNCHANGED <<today, nextId, calls, disk, fs, seen_files, mon, mu, st, wp, hist, crashes, feedVars>>

\* lines 265-281: parcel lookup and update_property_info when an owner or a
\* price came back; parcel is <<owner, price>>, <<"raise", NULL>> for an error
Property(b, parcel) ==
    /\ b \in BagToSet(bg)
    /\ b.pc = "property"
    /\ rows' = IF parcel[1] # "raise" /\ (parcel[1] # NULL \/ parcel[2] # NULL)
               THEN update_property_info(rows, b.id, parcel[1], parcel[2])
               ELSE rows
    /\ bg' = Take(bg, b)
    /\ UNCHANGED <<today, nextId, calls, disk, fs, seen_files, mon, mu, st, wp, hist, crashes, feedVars>>

\* The process dies at any point and is started again: everything in memory
\* is lost (the count of this lifetime's submissions starts again), the
\* store and the recordings stay, and the module-level
\* Data = AudioMetadata() of the new process re-runs _init_database.
CrashRestart ==
    /\ crashes < MaxCrashes
    /\ crashes' = crashes + 1
    /\ rows' = init_database(rows)
    /\ seen_files' = {}
    /\ mon' = MonStart
    /\ mu' = MuStart(today)
    /\ st' = StStart
    /\ wp' = EmptyBag
    /\ bg' = EmptyBag
    /\ hist' = [f \in Files |-> [hist[f] EXCEPT !.submitted = 0]]
    /\ UNCHANGED <<today, nextId, calls, disk, fs, feedVars>>

Init ==
    /\ today = 1
    /\ rows = {}
    /\ nextId = 1
    /\ calls = [c \in Callers |-> IdleCall]
    /\ disk = {}
    /\ fs = NoFiles
    /\ seen_files = {}
    /\ mon = MonStart
    /\ mu = MuStart(1)
    /\ st = StStart
    /\ wp = EmptyBag
    /\ bg = EmptyBag
    /\ hist = NoHist
    /\ crashes = 0
    /\ feed = FeedOff(1)
    /\ clients = 0
    /\ emitted = {}
    /\ fetched = <<>>
    /\ watched = {}
    /\ faults = 0
    /\ view = <<>>

Next ==
    \/ \E f \in AllFiles : FileAppears(f)
    \/ Midnight
    \/ MidnightReload
    \/ MidnightClear
    \/ StartupList
    \/ \E f \in AllFiles : ProcessFileGet(f)
    \/ \E f \in AllFiles, o \in IngestTranscripts, label \in IngestLabels,
          g \in IngestGeocodes, sv \in IngestStreetViews :
            ProcessFileTranscribe(f, o, label, g, sv)
    \/ \E f \in AllFiles : StartupAddMetadata(f)
    \/ StartupFinish
    \/ MonitorList
    \/ MonitorMark
    \/ \E t \in BagToSet(wp) : WaitUntilFileComplete(t)
    \/ \E t \in BagToSet(wp) : ProgressiveGet(t)
    \/ \E t \in BagToSet(wp) : ProgressiveAdd(t)
    \/ \E b \in BagToSet(bg), o \in IngestTranscripts : Transcribe(b, o)
    \/ \E b \in BagToSet(bg), label \in IngestLabels : Classify(b, label)
    \/ \E b \in BagToSet(bg), g \in IngestGeocodes : Geocode(b, g)
    \/ \E b \in BagToSet(bg), sv \in IngestStreetViews : StreetView(b, sv)
    \/ \E b \in BagToSet(bg), parcel \in IngestParcels : Property(b, parcel)
    \/ CrashRestart

Spec == Init /\ [][Next]_vars

\* The steps of each thread of app.py: the main thread in startup() and then
\* in monitor_new_files, the midnight_updater thread, the watcher pool
\* (wait_and_process) and background_executor (process_all_operations).
StartupStep ==
    \/ StartupList
    \/ \E f \in AllFiles : ProcessFileGet(f)
    \/ \E f \in AllFiles, o \in IngestTranscripts, label \in IngestLabels,
          g \in IngestGeocodes, sv \in IngestStreetViews :
            ProcessFileTranscribe(f, o, label, g, sv)
    \/ \E f \in AllFiles : StartupAddMetadata(f)
    \/ StartupFinish

MonitorStep == MonitorList \/ MonitorMark

MidnightStep == MidnightReload \/ MidnightClear

WatcherStep ==
    \E t \in BagToSet(wp) :
        WaitUntilFileComplete(t) \/ ProgressiveGet(t) \/ ProgressiveAdd(t)

BackgroundStep ==
    \/ \E b \in BagToSet(bg), o \in IngestTranscripts : Transcribe(b, o)
    \/ \E b \in BagToSet(bg), label \in IngestLabels : Classify(b, label)
    \/ \E b \in BagToSet(bg), g \in IngestGeocodes : Geocode(b, g)
    \/ \E b \in BagToSet(bg), sv \in IngestStreetViews : StreetView(b, sv)
    \/ \E b \in BagToSet(bg), parcel \in IngestParcels : Property(b, parcel)

\* Every thread that can take a step eventually takes one, and every
\* collaborator call returns or raises; files appear, days pass and the
\* process dies only as the environment chooses.
FairSpec ==
    /\ Spec
    /\ WF_vars(StartupStep)
    /\ WF_vars(MonitorStep)
    /\ WF_vars(MidnightStep)
    /\ WF_vars(WatcherStep)
    /\ WF_vars(BackgroundStep)

\* ------------------------------------------------------------- watching
\* The capture process creates a recording in today's folder and holds it
\* open.
CaptureStarts(f) ==
    /\ f \in Files \ disk
    /\ f.folder = GetPathForRecordingsToday(today)
    /\ disk' = disk \cup {f}
    /\ fs' = [fs EXCEPT ![f] = [ctime |-> Cardinality(disk) + 1, open |-> TRUE,
                                grown |-> FALSE]]
    /\ UNCHANGED <<storeVars, calls, seen_files, mon, mu, st, wp, bg, hist, crashes, feedVars>>

\* The capture process appends to a recording: os.path.getsize will differ
\* from what the thread watching the file read last.
CaptureWrites(f) ==
    /\ f \in disk
    /\ fs[f].open
    /\ fs' = [fs EXCEPT ![f].grown = TRUE]
    /\ UNCHANGED <<storeVars, calls, disk, seen_files, mon, mu, st, wp, bg, hist, crashes, feedVars>>

\* The capture process closes a recording.
CaptureEnds(f) ==
    /\ f \in disk
    /\ fs[f].open
    /\ fs' = [fs EXCEPT ![f].open = FALSE]
    /\ UNCHANGED <<storeVars, calls, disk, seen_files, mon, mu, st, wp, bg, hist, crashes, feedVars>>

\* files[-1] of sorted(files, key=GetTimeCreated)
Newest(files) ==
    CHOOSE f \in files : \A g \in files : fs[g].ctime <= fs[f].ctime

\* startup, lines 437-444: list today's files and enter
\* wait_until_file_complete(files[-1]), which reads last_size (lines 32-35)
StartupWatch ==
    /\ st.pc = "list"
    /\ LET files == GetAllFilesForToday(disk, today)
       IN IF files = {}
          THEN /\ st' = [pc |-> "monitor", files |-> {}, pf |-> <<>>]
               /\ fs' = fs
          ELSE /\ st' = [pc |-> "wait", files |-> files,
                         pf |-> [f \in files |-> [pc |-> "get", res |-> EmptyResult]],
                         last |-> Newest(files), stable |-> 0, settled |-> {}]
               /\ fs' = [fs EXCEPT ![Newest(files)].grown = FALSE]
    /\ UNCHANGED <<storeVars, calls, disk, seen_files, mon, mu, wp, bg, hist, crashes, feedVars>>

\* wait_until_file_complete, lines 37-54, one pass of the loop: sleep, read
\* the size, return once it was equal for the quiescence window.  The
\* result is the new count of equal reads.
StableAfterRead(grown, stable) == IF grown THEN 0 ELSE stable + 1

\* startup, line 444: a pass of the loop on files[-1]; when it returns the
\* pool of process_file tasks is filled with every file (lines 448-449)
StartupWaitRead ==
    /\ st.pc = "wait"
    /\ LET n == StableAfterRead(fs[st.last].grown, st.stable)
       IN st' = IF n >= QuiescenceReads
                THEN [st EXCEPT !.pc = "pool", !.stable = n, !.settled = {st.last}]
                ELSE [st EXCEPT !.stable = n]
    /\ fs' = [fs EXCEPT ![st.last].grown = FALSE]
    /\ UNCHANGED <<storeVars, calls, disk, seen_files, mon, mu, wp, bg, hist, crashes, feedVars>>

\* The wait_and_process tasks that occupy a worker thread of the pool.
Running(b) ==
    BagCardinality([t \in {x \in BagToSet(b) : x.pc \notin {"wait", "failed"}} |-> b[t]])

\* wait_and_process starts in a free worker thread and enters
\* wait_until_file_complete, which reads last_size (lines 32-35)
WaitStart(t) ==
    /\ t \in BagToSet(wp)
    /\ t.pc = "wait"
    /\ Running(wp) < max_workers
    /\ wp' = Put(Take(wp, t), [t EXCEPT !.pc = "watch", !.stable = 0])
    /\ fs' = [fs EXCEPT ![t.fp].grown = FALSE]
    /\ UNCHANGED <<storeVars, calls, disk, seen_files, mon, mu, st, bg, hist, crashes, feedVars>>

\* wait_until_file_complete, lines 37-54, one pass of the loop in a watcher
\* thread; when it returns process_file_progressive is called
WaitRead(t) ==
    /\ t \in BagToSet(wp)
    /\ t.pc = "watch"
    /\ LET n == StableAfterRead(fs[t.fp].grown, t.stable)
       IN wp' = Put(Take(wp, t),
                    IF n >= QuiescenceReads
                    THEN [t EXCEPT !.pc = "get", !.stable = n]
                    ELSE [t EXCEPT !.stable = n])
    /\ fs' = [fs EXCEPT ![t.fp].grown = FALSE]
    /\ UNCHANGED <<storeVars, calls, disk, seen_files, mon, mu, st, bg, hist, crashes, feedVars>>

WatchInit ==
    /\ today = 1
    /\ rows = {}
    /\ nextId = 1
    /\ calls = [c \in Callers |-> IdleCall]
    /\ disk = {}
    /\ fs = NoFiles
    /\ seen_files = {}
    /\ mon = MonStart
    /\ mu = MuStart(1)
    /\ st = StStart
    /\ wp = EmptyBag
    /\ bg = EmptyBag
    /\ hist = NoHist
    /\ crashes = 0
    /\ feed = FeedOff(1)
    /\ clients = 0
    /\ emitted = {}
    /\ fetched = <<>>
    /\ watched = {}
    /\ faults = 0
    /\ view = <<>>

\* One day of recordings that are still written while startup() and the
\* watcher pool look at them.
WatchNext ==
    \/ \E f \in FeedFiles : CaptureStarts(f)
    \/ \E f \in FeedFiles : CaptureWrites(f)
    \/ \E f \in FeedFiles : CaptureEnds(f)
    \/ StartupWatch
    \/ StartupWaitRead
    \/ \E f \in FeedFiles : ProcessFileGet(f)
    \/ \E f \in FeedFiles, o \in IngestTranscripts, label \in IngestLabels,
          g \in IngestGeocodes, sv \in IngestStreetViews :
            ProcessFileTranscribe(f, o, label, g, sv)
    \/ \E f \in FeedFiles : StartupAddMetadata(f)
    \/ StartupFinish
    \/ MonitorList
    \/ MonitorMark
    \/ \E t \in BagToSet(wp) : WaitStart(t)
    \/ \E t \in BagToSet(wp) : WaitRead(t)
    \/ \E t \in BagToSet(wp) : ProgressiveGet(t)
    \/ \E t \in BagToSet(wp) : ProgressiveAdd(t)

SpecWatch == WatchInit /\ [][WatchNext]_vars

\* The steps of the main thread in startup() with its wait on files[-1].
StartupWatchStep ==
    \/ StartupWatch
    \/ StartupWaitRead
    \/ \E f \in FeedFiles : ProcessFileGet(f)
    \/ \E f \in FeedFiles, o \in IngestTranscripts, label \in IngestLabels,
          g \in IngestGeocodes, sv \in IngestStreetViews :
            ProcessFileTranscribe(f, o, label, g, sv)
    \/ \E f \in FeedFiles : StartupAddMetadata(f)
    \/ StartupFinish

\* The steps of the wait_and_process task of file f.
WatcherStepOf(f) ==
    \E t \in BagToSet(wp) :
        /\ t.fp = f
        /\ WaitStart(t) \/ WaitRead(t) \/ ProgressiveGet(t) \/ ProgressiveAdd(t)

\* The main thread keeps running, and so does every wait_and_process task
\* that has a worker thread or can get one; the capture process writes and
\* closes its recordings as it likes.
FairSpecWatch ==
    /\ SpecWatch
    /\ WF_vars(StartupWatchStep)
    /\ WF_vars(MonitorStep)
    /\ \A f \in FeedFiles : WF_vars(WatcherStepOf(f))

\* ------------------------------------------------- a busy watcher pool
\* monitor_new_files has found the growing recordings and a worker thread
\* of its pool runs wait_until_file_complete on each of them; startup()
\* found the folder empty.
BusyInit ==
    /\ today = 1
    /\ rows = {}
    /\ nextId = 1
    /\ calls = [c \in Callers |-> IdleCall]
    /\ disk = GrowingFiles
    /\ fs = [f \in Files |->
                IF f \in GrowingFiles
                THEN [ctime |-> 1, open |-> TRUE, grown |-> TRUE]
                ELSE NoFiles[f]]
    /\ seen_files = GrowingFiles
    /\ mon = MonStart
    /\ mu = MuStart(1)
    /\ st = [pc |-> "monitor", files |-> {}, pf |-> <<>>]
    /\ wp = SetToBag({[fp |-> f, pc |-> "watch", stable |-> 0] : f \in GrowingFiles})
    /\ bg = EmptyBag
    /\ hist = [f \in Files |->
                  IF f \in GrowingFiles
                  THEN [NoHist[f] EXCEPT !.submitted = 1]
                  ELSE NoHist[f]]
    /\ crashes = 0
    /\ feed = FeedOff(1)
    /\ clients = 0
    /\ emitted = {}
    /\ fetched = <<>>
    /\ watched = {}
    /\ faults = 0
    /\ view = <<>>

\* wait_until_file_complete, lines 37-54, one pass of the loop on a
\* recording the capture process writes without pause: the size differs
\* from last_size at every pass, so the count of equal reads starts again
GrowingRead(t) ==
    /\ t \in BagToSet(wp)
    /\ t.pc = "watch"
    /\ t.fp \in GrowingFiles
    /\ wp' = Put(Take(wp, t), [t EXCEPT !.stable = StableAfterRead(TRUE, t.stable)])
    /\ UNCHANGED <<storeVars, calls, disk, fs, seen_files, mon, mu, st, bg, hist, crashes, feedVars>>

\* The growing recordings are written all the time and never closed; two more
\* recordings of the day are created, written and closed as the capture
\* process likes, and the monitor loop hands them to its pool.
BusyNext ==
    \/ \E f \in FeedFiles : CaptureStarts(f)
    \/ \E f \in FeedFiles : CaptureWrites(f)
    \/ \E f \in FeedFiles : CaptureEnds(f)
    \/ MonitorList
    \/ MonitorMark
    \/ \E t \in BagToSet(wp) : WaitStart(t)
    \/ \E t \in BagToSet(wp) : t.fp \in FeedFiles /\ WaitRead(t)
    \/ \E t \in BagToSet(wp) : GrowingRead(t)
    \/ \E t \in BagToSet(wp) : ProgressiveGet(t)
    \/ \E t \in BagToSet(wp) : ProgressiveAdd(t)

SpecBusy == BusyInit /\ [][BusyNext]_vars

\* The steps of the wait_and_process task of file f in the busy pool.
BusyStepOf(f) ==
    \E t \in BagToSet(wp) :
        /\ t.fp = f
        /\ \/ WaitStart(t)
           \/ f \in FeedFiles /\ WaitRead(t)
           \/ GrowingRead(t)
           \/ ProgressiveGet(t)
           \/ ProgressiveAdd(t)

\* The monitor loop keeps running, and so does every wait_and_process task
\* that has a worker thread or can get one.
FairSpecBusy ==
    /\ SpecBusy
    /\ WF_vars(MonitorStep)
    /\ \A f \in FeedFiles \cup GrowingFiles : WF_vars(BusyStepOf(f))

\* ------------------------------------------------------------ enrichment
\* Everything the collaborators of process_all_operations can answer.
\* api.getTranscript: None, an exception, a dict with or without an address,
\* a dict with an empty transcript.
EnrichTranscripts ==
    { TNone, TRaise,
      TDict("units responding", "12 main st"),
      TDict("units responding", NULL),
      TDict("", NULL) }

\* incident_helper.LABELS
LABELS ==
    { "Assault/Domestic", "Theft/Burglary", "Disturbance/Noise",
      "Weapons/Shots Fired", "Traffic Stop", "Motor Vehicle Accident",
      "Medical", "Fire Alarm", "Structure Fire", "Brush/Vehicle Fire",
      "Gas/Electrical Hazard", "Wires Down", "Hazmat", "Animal Complaint",
      "Welfare Check", "Suspicious Activity", "Missing Person",
      "Alarm (Burglar/Panic)", "unknown" }

\* The labels the values of incident_helper._SYNONYMS name, and the labels
\* of incident_helper._RULES: every label but "unknown".
SynonymLabels == LABELS \ {"unknown"}
RuleLabels == LABELS \ {"unknown"}

\* The label text of an LLM answer, by what _canonicalize finds in it:
\* nothing (None or blank), a label in any letter case, a synonym keyword of
\* a label, or neither, with the best fuzzy match and its score.
RawLabel(kind, label, score) == [kind |-> kind, label |-> label, score |-> score]

RawLabels ==
    {RawLabel("empty", NULL, 0)}
    \cup {RawLabel("direct", l, 100) : l \in LABELS}
    \cup {RawLabel("synonym", l, 0) : l \in SynonymLabels}
    \cup {RawLabel("fuzzy", l, sc) : l \in LABELS, sc \in {84, 85}}

\* incident_helper._canonicalize
CanonicalizeNoDefault(l) ==
    IF l.kind \in {"direct", "synonym"} \/ (l.kind = "fuzzy" /\ l.score >= 85)
    THEN l.label
    ELSE NULL
canonicalize(l) ==
    IF l.kind = "empty" THEN "unknown"
    ELSE IF l.kind = "direct" THEN l.label
    ELSE IF l.kind = "synonym" THEN l.label
    ELSE IF l.score >= 85 THEN l.label ELSE "unknown"

\* A transcript, by what classify_incident looks at: fewer than five words,
\* the label of the first rule that matches, the label of the first synonym
\* keyword it holds.
Text(short, rule, syn) == [short |-> short, rule |-> rule, syn |-> syn]

Texts ==
    {Text(sh, r, sy) : sh \in BOOLEAN, r \in RuleLabels \cup {NULL},
                       sy \in SynonymLabels \cup {NULL}}

\* _query_llm: an LLMResult whose label went through _canonicalize, or an
\* exception after its retries (the model is unavailable, its answer is no
\* JSON, its label is no string)
LLMRaise == [kind |-> "raise", raw |-> RawLabel("empty", NULL, 0)]
LLMLabel(raw) == [kind |-> "label", raw |-> raw]
LLMAnswers == {LLMRaise} \cup {LLMLabel(raw) : raw \in RawLabels}

\* incident_helper.classify_incident
classify_incident(t, a) ==
    IF t.short THEN "unknown"
    ELSE IF t.rule # NULL THEN t.rule
    ELSE IF a.kind = "label" THEN canonicalize(a.raw)
    ELSE IF t.syn # NULL THEN t.syn
    ELSE "unknown"

\* Everything classify_incident can return.
ClassifierRange == {classify_incident(t, a) : t \in Texts, a \in LLMAnswers}

\* The transcripts and LLM answers of the enrichment specification.
EnrichTexts ==
    {Text(TRUE, NULL, NULL), Text(FALSE, NULL, NULL), Text(FALSE, NULL, "Medical")}
EnrichAnswers ==
    {LLMRaise, LLMLabel(RawLabel("direct", "Medical", 100)),
     LLMLabel(RawLabel("fuzzy", "Hazmat", 84))}

\* What incident_helper.classify_incident gives process_all_operations: a
\* label, or an exception ("raise") when it is handed no string
EnrichLabels ==
    {classify_incident(t, a) : t \in EnrichTexts, a \in EnrichAnswers} \cup {"raise"}

\* location_services.geocode_newton: None, an exception, a full result, a
\* result without place id (url is None, lines 313-318), a result with
\* neither formatted address nor place id
EnrichGeocodes ==
    { GNone, GRaise,
      GResult("12 Main St, Newton, MA", "maps?q=12+Main+St"),
      GResult("12 Main St, Newton, MA", NULL),
      GResult(NULL, NULL) }

\* location_services.streetview_url: a URL or an exception
EnrichStreetViews == {"streetview?location=42.33,-71.20", "raise"}

\* public_property_info.identify_at_lonlat: (owner, price), owner only,
\* neither, or an exception
EnrichParcels ==
    { <<"OWNER", "900000">>, <<"OWNER", NULL>>, <<NULL, NULL>>, <<"raise", NULL>> }

\* The process after a startup() that found no file: the main thread is in
\* monitor_new_files.
EnrichInit ==
    /\ today = 1
    /\ rows = {}
    /\ nextId = 1
    /\ calls = [c \in Callers |-> IdleCall]
    /\ disk = {}
    /\ fs = NoFiles
    /\ seen_files = {}
    /\ mon = MonStart
    /\ mu = MuStart(1)
    /\ st = [pc |-> "monitor", files |-> {}, pf |-> <<>>]
    /\ wp = EmptyBag
    /\ bg = EmptyBag
    /\ hist = NoHist
    /\ crashes = 0
    /\ feed = FeedOff(1)
    /\ clients = 0
    /\ emitted = {}
    /\ fetched = <<>>
    /\ watched = {}
    /\ faults = 0
    /\ view = <<>>

\* One day of the monitor path with every collaborator answer.
EnrichNext ==
    \/ \E f \in FeedFiles : FileAppears(f)
    \/ MonitorList
    \/ MonitorMark
    \/ \E t \in BagToSet(wp) : WaitUntilFileComplete(t)
    \/ \E t \in BagToSet(wp) : ProgressiveGet(t)
    \/ \E t \in BagToSet(wp) : ProgressiveAdd(t)
    \/ \E b \in BagToSet(bg), o \in EnrichTranscripts : Transcribe(b, o)
    \/ \E b \in BagToSet(bg), label \in EnrichLabels : Classify(b, label)
    \/ \E b \in BagToSet(bg), g \in EnrichGeocodes : Geocode(b, g)
    \/ \E b \in BagToSet(bg), sv \in EnrichStreetViews : StreetView(b, sv)
    \/ \E b \in BagToSet(bg), parcel \in EnrichParcels : Property(b, parcel)

SpecEnrich == EnrichInit /\ [][EnrichNext]_vars

\* ------------------------------------------------------ vanishing files
\* A recording is removed from today's folder (moved or deleted by the
\* capture software or an operator); FileAppears puts it back.
FileVanishes(f) ==
    /\ f \in disk
    /\ disk' = disk \ {f}
    /\ UNCHANGED <<storeVars, calls, fs, seen_files, mon, mu, st, wp, bg, hist, crashes, feedVars>>

\* wait_until_file_complete, line 26: os.path.exists(path) in a free worker
\* thread
VanishEnter(t) ==
    /\ t \in BagToSet(wp)
    /\ t.pc = "wait"
    /\ Running(wp) < max_workers
    /\ wp' = Put(Take(wp, t),
                 [t EXCEPT !.pc = IF t.fp \in disk THEN "size" ELSE "absent"])
    /\ UNCHANGED <<storeVars, calls, disk, fs, seen_files, mon, mu, st, bg, hist, crashes, feedVars>>

\* lines 28-30: the loop that sleeps until the path exists
VanishAbsent(t) ==
    /\ t \in BagToSet(wp)
    /\ t.pc = "absent"
    /\ t.fp \in disk
    /\ wp' = Put(Take(wp, t), [t EXCEPT !.pc = "size"])
    /\ UNCHANGED <<storeVars, calls, disk, fs, seen_files, mon, mu, st, bg, hist, crashes, feedVars>>

\* lines 33-35: last_size = os.path.getsize(path), outside any try block:
\* FileNotFoundError leaves wait_until_file_complete and wait_and_process,
\* and the task ends with that exception in its future
VanishSize(t) ==
    /\ t \in BagToSet(wp)
    /\ t.pc = "size"
    /\ wp' = Put(Take(wp, t),
                 IF t.fp \in disk
                 THEN [t EXCEPT !.pc = "watch", !.stable = 0]
                 ELSE [t EXCEPT !.pc = "failed"])
    /\ UNCHANGED <<storeVars, calls, disk, fs, seen_files, mon, mu, st, bg, hist, crashes, feedVars>>

\* lines 37-54, one pass of the loop: a missing file is skipped with
\* continue while the clock behind stable_for runs on; an equal size returns
\* once last_change lies more than 3 seconds back
VanishRead(t) ==
    /\ t \in BagToSet(wp)
    /\ t.pc = "watch"
    /\ LET n == StableAfterRead(FALSE, t.stable)
       IN wp' = Put(Take(wp, t),
                    IF t.fp \notin disk
                    THEN [t EXCEPT !.stable = IF n > QuiescenceReads
                                              THEN QuiescenceReads ELSE n]
                    ELSE IF n >= QuiescenceReads
                    THEN [t EXCEPT !.pc = "get", !.stable = QuiescenceReads]
                    ELSE [t EXCEPT !.stable = n])
    /\ UNCHANGED <<storeVars, calls, disk, fs, seen_files, mon, mu, st, bg, hist, crashes, feedVars>>

\* process_file, line 310: GetTimeCreated(filepath) is os.path.getctime,
\* which raises FileNotFoundError for a file that is gone; startup's
\* future.result() (lines 451-452) raises it again in the main thread, no
\* caller handles it, and main() ends before monitor_new_files is entered
ProcessFileVanished(f) ==
    /\ st.pc = "pool"
    /\ f \in st.files
    /\ st.pf[f].pc = "transcribe"
    /\ f \notin disk
    /\ st' = [st EXCEPT !.pc = "halted"]
    /\ UNCHANGED <<storeVars, calls, disk, fs, seen_files, mon, mu, wp, bg, hist, crashes, feedVars>>

\* One day of startup() and the monitor path over finished recordings that
\* can be removed and put back while they are processed.
VanishNext ==
    \/ \E f \in FeedFiles : FileAppears(f)
    \/ \E f \in FeedFiles : FileVanishes(f)
    \/ StartupList
    \/ \E f \in FeedFiles : ProcessFileGet(f)
    \/ \E f \in FeedFiles : ProcessFileVanished(f)
    \/ \E f \in FeedFiles, o \in IngestTranscripts, label \in IngestLabels,
          g \in IngestGeocodes, sv \in IngestStreetViews :
            f \in disk /\ ProcessFileTranscribe(f, o, label, g, sv)
    \/ \E f \in FeedFiles : StartupAddMetadata(f)
    \/ StartupFinish
    \/ MonitorList
    \/ MonitorMark
    \/ \E t \in BagToSet(wp) : VanishEnter(t)
    \/ \E t \in BagToSet(wp) : VanishAbsent(t)
    \/ \E t \in BagToSet(wp) : VanishSize(t)
    \/ \E t \in BagToSet(wp) : VanishRead(t)
    \/ \E t \in BagToSet(wp) : ProgressiveGet(t)
    \/ \E t \in BagToSet(wp) : ProgressiveAdd(t)

SpecVanish == Init /\ [][VanishNext]_vars

\* ------------------------------------------------------ store contention
\* process_file_progressive with add_metadata hitting "database is locked":
\* the connection waits up to its busy timeout (timeout=30), then
\* sqlite3.OperationalError is caught inside add_metadata (data.py lines
\* 292-298), which prints it and returns incident_id = None; the caller
\* submits process_all_operations with that id all the same (lines 130-146)
ProgressiveAddLocked(t) ==
    /\ t \in BagToSet(wp)
    /\ t.pc = "add"
    /\ bg' = SubmitBackground(bg, NoId, t.fp, 0)
    /\ hist' = [hist EXCEPT ![t.fp].scheduled = @ + 1]
    /\ wp' = Take(wp, t)
    /\ UNCHANGED <<storeVars, calls, disk, fs, seen_files, mon, mu, st, crashes, feedVars>>

\* process_all_operations, lines 180-209, with update_transcript hitting
\* "database is locked": the except sqlite3.Error branch of
\* update_transcript (data.py lines 315-320) prints it and returns, and the
\* function goes on to the classification stage
TranscribeLocked(b, o) ==
    /\ b \in BagToSet(bg)
    /\ b.pc = "transcribe"
    /\ hist' = NoteTranscript(hist, rows, b.fp)
    /\ bg' = Put(Take(bg, b),
                 [b EXCEPT !.pc = "classify", !.result = o.kind,
                           !.transcript = IF o.kind = "dict" THEN o.transcript ELSE "",
                           !.address = IF o.kind = "dict" THEN o.address ELSE NULL])
    /\ UNCHANGED <<storeVars, calls, disk, fs, seen_files, mon, mu, st, wp, crashes, feedVars>>

\* One day of the monitor path with another connection holding the write
\* lock of the database for longer than the busy timeout now and then.
ContendNext ==
    \/ \E f \in FeedFiles : FileAppears(f)
    \/ MonitorList
    \/ MonitorMark
    \/ \E t \in BagToSet(wp) : WaitUntilFileComplete(t)
    \/ \E t \in BagToSet(wp) : ProgressiveGet(t)
    \/ \E t \in BagToSet(wp) : ProgressiveAdd(t)
    \/ \E t \in BagToSet(wp) : ProgressiveAddLocked(t)
    \/ \E b \in BagToSet(bg), o \in IngestTranscripts : Transcribe(b, o)
    \/ \E b \in BagToSet(bg), o \in IngestTranscripts : TranscribeLocked(b, o)
    \/ \E b \in BagToSet(bg), label \in IngestLabels : Classify(b, label)
    \/ \E b \in BagToSet(bg), g \in IngestGeocodes : Geocode(b, g)
    \/ \E b \in BagToSet(bg), sv \in IngestStreetViews : StreetView(b, sv)
    \/ \E b \in BagToSet(bg), parcel \in IngestParcels : Property(b, parcel)

SpecContend == EnrichInit /\ [][ContendNext]_vars

\* ---------------------------------------------------------- change feed
\* SELECT MAX(id) FROM audio_metadata WHERE date_created = ?  (0 when no row)
MaxIdOfDate(rs, date) ==
    IF \E r \in rs : r.date_created = date
    THEN CHOOSE m \in {r.id : r \in {x \in rs : x.date_created = date}} :
            \A r \in rs : r.date_created = date => r.id <= m
    ELSE 0

\* SELECT ... WHERE date_created = ? AND id > ? ORDER BY id ASC
NewRecords(rs, date, last) ==
    {x \in rs : x.date_created = date /\ x.id > last}

Ids(rs) == {r.id : r \in rs}

\* get_incidents: SELECT ... WHERE date_created = ? AND transcript IS NOT
\* NULL AND transcript != ''
get_incidents(rs, date) ==
    {x \in rs : x.date_created = date /\ x.transcript # NULL /\ x.transcript # ""}

\* incident["content"], built the same way by get_incidents (lines 237-245)
\* and by the poll loop (lines 926-935)
Content(transcript) ==
    IF transcript \in {NULL, "", "[EMPTY_TRANSCRIPT]"}
    THEN "[No audio content detected]"
    ELSE IF transcript = "[PLACEHOLDER]"
    THEN "[Processing audio...]"
    ELSE transcript

\* The subscribers' picture after the incidents rs were sent to them.
Deliver(v, rs) ==
    [i \in DOMAIN v \cup Ids(rs) |->
        IF i \in Ids(rs)
        THEN Content((CHOOSE r \in rs : r.id = i).transcript)
        ELSE v[i]]

\* What api.getTranscript returns to the ingestion process while the
\* dashboard runs.
FeedTranscripts == {TDict("units responding", NULL), TDict("", NULL)}

\* The watermark after a non-empty fetch: line 992 takes the MAX(id) read
\* before the fetch.
WatermarkAfterFetch(current_max_id, batch) == current_max_id

Count(f, i) == IF i \in DOMAIN f THEN f[i] ELSE 0

\* the ids the table can hand out to the rows of FeedFiles
FeedIds == 1..Cardinality(FeedFiles)

\* the ingestion process commits the stub of a recording of today's folder
FeedInsert(f) ==
    /\ f \in FeedFiles
    /\ f.folder = GetPathForRecordingsToday(today)
    /\ ~ Conflict(rows, f)
    /\ LET v == StubValues(f, DateCreated(f, today))
       IN /\ rows' = InsertDoNothing(rows, nextId, v)
          /\ watched' = IF /\ clients > 0
                           /\ feed.last_known_id # NoneId
                           /\ v.date_created = feed.current_date
                        THEN watched \cup {nextId} ELSE watched
    /\ nextId' = sqlite_sequence(nextId, 1)
    /\ UNCHANGED <<today, calls, pipeVars, feed, clients, emitted, fetched, faults, view>>

\* the ingestion process commits the transcript of a stub: process_all_operations,
\* lines 186-204 (update_transcript with what api.getTranscript returned)
FeedUpdate(i, o) ==
    /\ \E r \in rows : r.id = i /\ r.transcript = Placeholder
    /\ rows' = update_transcript(rows, i, o.transcript, o.confidence, o.address)
    /\ UNCHANGED <<today, nextId, calls, pipeVars, feedVars>>

\* handle_update_request / handle_check_for_updates: a subscriber asks and is
\* sent data_update with get_incidents()
HandleUpdateRequest ==
    /\ clients > 0
    /\ view' = Deliver(view, get_incidents(rows, feed.current_date))
    /\ UNCHANGED <<storeVars, calls, pipeVars, feed, clients, emitted, fetched, watched, faults>>

\* handle_connect, lines 715-735: register the client, start the monitoring
\* thread if none is alive, send initial_data
HandleConnect ==
    /\ clients < MaxClients
    /\ clients' = clients + 1
    /\ feed' = IF feed.pc = "off"
                THEN [feed EXCEPT !.pc = "max", !.monitoring_thread = 1,
                                  !.created = 1, !.alive = {1}]
                ELSE feed
    /\ view' = Deliver(view, get_incidents(rows, feed.current_date))
    /\ UNCHANGED <<storeVars, calls, pipeVars, emitted, fetched, watched, faults>>

\* handle_disconnect
HandleDisconnect ==
    /\ clients > 0
    /\ clients' = clients - 1
    /\ UNCHANGED <<storeVars, calls, pipeVars, feed, emitted, fetched, watched, faults, view>>

\* enhanced_monitor_database, lines 869-901: read MAX(id) of the bucket,
\* initialise last_known_id on the first pass, detect a larger id.  A change
\* of the database file without a larger id (an UPDATE of a row) only sends a
\* heartbeat that carries no row (lines 1015-1026).
PollMax ==
    /\ feed.pc = "max"
    /\ LET current_max_id == MaxIdOfDate(rows, feed.current_date)
       IN feed' =
            IF feed.last_known_id = NoneId
            THEN [feed EXCEPT !.last_known_id = current_max_id,
                              !.init = current_max_id,
                              !.current_max_id = current_max_id]
            ELSE IF current_max_id > feed.last_known_id
            THEN [feed EXCEPT !.pc = "fetch", !.current_max_id = current_max_id]
            ELSE [feed EXCEPT !.current_max_id = current_max_id]
    /\ UNCHANGED <<storeVars, calls, pipeVars, clients, emitted, fetched, watched, faults, view>>

\* lines 902-992: fetch the rows with id > last_known_id, build the batch,
\* advance last_known_id
Fetch ==
    /\ feed.pc = "fetch"
    /\ LET batch == NewRecords(rows, feed.current_date, feed.last_known_id)
       IN IF batch = {}
          THEN /\ feed' = [feed EXCEPT !.pc = "max"]
               /\ fetched' = fetched
          ELSE /\ feed' = [feed EXCEPT
                             !.pc = "emit", !.batch = batch,
                             !.last_known_id =
                                 WatermarkAfterFetch(feed.current_max_id, batch)]
               /\ fetched' = [i \in DOMAIN fetched \cup Ids(batch) |->
                                 IF i \in Ids(batch) THEN Count(fetched, i) + 1
                                 ELSE fetched[i]]
    /\ UNCHANGED <<storeVars, calls, pipeVars, clients, emitted, watched, faults, view>>

\* lines 995-999: socketio.emit("new_incidents", ...) when a client is there
Emit ==
    /\ feed.pc = "emit"
    /\ emitted' = IF clients > 0 THEN emitted \cup Ids(feed.batch) ELSE emitted
    /\ view' = IF clients > 0 THEN Deliver(view, feed.batch) ELSE view
    /\ feed' = [feed EXCEPT !.pc = "max", !.batch = {}]
    /\ UNCHANGED <<storeVars, calls, pipeVars, clients, fetched, watched, faults>>

\* lines 1051-1073: a query or an emit of this iteration raises; the handler
\* sleeps and the loop starts its next iteration with its locals as they are
PollRaises ==
    /\ feed.pc \in {"max", "fetch", "emit"}
    /\ faults < MaxFaults
    /\ faults' = faults + 1
    /\ feed' = [feed EXCEPT !.pc = "max", !.batch = {}]
    /\ UNCHANGED <<storeVars, calls, pipeVars, clients, emitted, fetched, watched, view>>

FeedInit ==
    /\ today = 1
    /\ rows = {}
    /\ nextId = 1
    /\ calls = [c \in Callers |-> IdleCall]
    /\ disk = {}
    /\ fs = NoFiles
    /\ seen_files = {}
    /\ mon = MonStart
    /\ mu = MuStart(1)
    /\ st = StStart
    /\ wp = EmptyBag
    /\ bg = EmptyBag
    /\ hist = NoHist
    /\ crashes = 0
    /\ feed = FeedOff(1)
    /\ clients = 0
    /\ emitted = {}
    /\ fetched = <<>>
    /\ watched = {}
    /\ faults = 0
    /\ view = <<>>

FeedNext ==
    \/ Midnight
    \/ \E f \in FeedFiles : FeedInsert(f)
    \/ HandleConnect
    \/ HandleDisconnect
    \/ PollMax
    \/ Fetch
    \/ Emit
    \/ PollRaises

SpecFeed == FeedInit /\ [][FeedNext]_vars

\* The poll loop keeps running: each of its steps is taken when it stays
\* enabled (the thread sleeps at most 5 seconds between iterations).
FairSpecFeed ==
    SpecFeed /\ WF_vars(PollMax) /\ WF_vars(Fetch) /\ WF_vars(Emit)

\* One day of the dashboard with the ingestion process enriching the rows it
\* inserted and subscribers asking for updates; no iteration of the loop
\* raises.
ViewNext ==
    \/ \E f \in FeedFiles : FeedInsert(f)
    \/ \E i \in FeedIds, o \in FeedTranscripts : FeedUpdate(i, o)
    \/ HandleConnect
    \/ HandleDisconnect
    \/ HandleUpdateRequest
    \/ PollMax
    \/ Fetch
    \/ Emit

SpecView == FeedInit /\ [][ViewNext]_vars

FairSpecView ==
    SpecView /\ WF_vars(PollMax) /\ WF_vars(Fetch) /\ WF_vars(Emit)

\* ---------------------------------------------------- concurrent connects
\* async_mode="threading": every connect event runs handle_connect in a
\* thread of its own.  Line 720: connected_clients.add(request.sid)
ConnectEnter(c) ==
    /\ calls[c].pc = "idle"
    /\ clients' = clients + 1
    /\ calls' = [calls EXCEPT ![c] = [@ EXCEPT !.pc = "check"]]
    /\ UNCHANGED <<storeVars, pipeVars, feed, emitted, fetched, watched, faults, view>>

\* monitoring_thread.is_alive(): the thread was started (the loop of
\* enhanced_monitor_database never returns)
is_alive(t, alive) == t \in alive

\* line 723: if monitoring_thread is None or not monitoring_thread.is_alive()
ConnectCheck(c) ==
    /\ calls[c].pc = "check"
    /\ calls' = [calls EXCEPT ![c] =
                    [@ EXCEPT !.pc =
                        IF \/ feed.monitoring_thread = NoThread
                           \/ ~ is_alive(feed.monitoring_thread, feed.alive)
                        THEN "create" ELSE "snapshot"]]
    /\ UNCHANGED <<storeVars, pipeVars, feedVars>>

\* lines 724-726: monitoring_thread = threading.Thread(target=...)
ConnectCreate(c) ==
    /\ calls[c].pc = "create"
    /\ feed' = [feed EXCEPT !.monitoring_thread = feed.created + 1,
                            !.created = feed.created + 1]
    /\ calls' = [calls EXCEPT ![c] = [@ EXCEPT !.pc = "start"]]
    /\ UNCHANGED <<storeVars, pipeVars, clients, emitted, fetched, watched, faults, view>>

\* line 727: monitoring_thread.start() on the thread the global names now;
\* starting a thread a second time raises RuntimeError and ends the handler
ConnectStart(c) ==
    /\ calls[c].pc = "start"
    /\ IF is_alive(feed.monitoring_thread, feed.alive)
       THEN /\ calls' = [calls EXCEPT ![c] = [@ EXCEPT !.pc = "raised"]]
            /\ feed' = feed
       ELSE /\ calls' = [calls EXCEPT ![c] = [@ EXCEPT !.pc = "snapshot"]]
            /\ feed' = [feed EXCEPT
                           !.alive = @ \cup {feed.monitoring_thread},
                           !.pc = IF @ = "off" THEN "max" ELSE @]
    /\ UNCHANGED <<storeVars, pipeVars, clients, emitted, fetched, watched, faults, view>>

\* lines 730-735: emit initial_data with dashboard.get_incidents()
ConnectSnapshot(c) ==
    /\ calls[c].pc = "snapshot"
    /\ view' = Deliver(view, get_incidents(rows, feed.current_date))
    /\ calls' = [calls EXCEPT ![c] = [@ EXCEPT !.pc = "done"]]
    /\ UNCHANGED <<storeVars, pipeVars, feed, clients, emitted, fetched, watched, faults>>

\* Clients connect at any time, each handled in its own thread, while the
\* ingestion process inserts rows.
ConnectNext ==
    \/ \E f \in FeedFiles : FeedInsert(f)
    \/ \E c \in Callers : ConnectEnter(c)
    \/ \E c \in Callers : ConnectCheck(c)
    \/ \E c \in Callers : ConnectCreate(c)
    \/ \E c \in Callers : ConnectStart(c)
    \/ \E c \in Callers : ConnectSnapshot(c)

SpecConnect == FeedInit /\ [][ConnectNext]_vars

\* ---------------------------------------------------- concurrent updates
\* The update operation a caller of the API runs: callers 1, 2, 3, ... run
\* update_transcript, update_incident_type, update_location_info,
\* update_streetview, update_property_info, and so on in turn.
UpdateOps == <<"transcribe", "classify", "geocode", "streetview", "property">>

OpOf(c) == UpdateOps[((c - 1) % Len(UpdateOps)) + 1]

\* The UPDATE statement of an operation with the values its caller carries.
ApplyUpdate(op, rs, id) ==
    IF op = "transcribe"
    THEN update_transcript(rs, id, "units responding", "0.91", "12 main st")
    ELSE IF op = "classify"
    THEN update_incident_type(rs, id, "Medical")
    ELSE IF op = "geocode"
    THEN update_location_info(rs, id, "42.33", "-71.20", "12 Main St, Newton, MA",
                              "maps?q=12+Main+St")
    ELSE IF op = "streetview"
    THEN update_streetview(rs, id, "streetview?location=42.33,-71.20")
    ELSE update_property_info(rs, id, "OWNER", "900000")

\* What the caller's group of columns holds once its statement is committed.
Written(op, r) ==
    IF op = "transcribe"
    THEN r.transcript = "units responding" /\ r.confidence = "0.91"
         /\ r.address = "12 main st"
    ELSE IF op = "classify"
    THEN r.incident_type = "Medical"
    ELSE IF op = "geocode"
    THEN r.latitude = "42.33" /\ r.longitude = "-71.20"
         /\ r.formatted_address = "12 Main St, Newton, MA"
         /\ r.maps_link = "maps?q=12+Main+St"
    ELSE IF op = "streetview"
    THEN r.streetview_url = "streetview?location=42.33,-71.20"
    ELSE r.property_owner = "OWNER" /\ r.property_price = "900000"

\* update_*, entry: the call starts for the row id and opens its connection
\* (sqlite3.connect, PRAGMA journal_mode=WAL)
CallUpdate(c, id) ==
    /\ calls[c].pc = "idle"
    /\ id \in Ids(rows)
    /\ calls' = [calls EXCEPT ![c] = [@ EXCEPT !.pc = "update", !.ret = id]]
    /\ UNCHANGED <<storeVars, pipeVars, feedVars>>

\* update_*: cursor.execute(UPDATE ... WHERE id = ?) and conn.commit(), one
\* write transaction of SQLite
UpdateCommit(c) ==
    /\ calls[c].pc = "update"
    /\ rows' = ApplyUpdate(OpOf(c), rows, calls[c].ret)
    /\ calls' = [calls EXCEPT ![c] = [@ EXCEPT !.pc = "done"]]
    /\ UNCHANGED <<today, nextId, pipeVars, feedVars>>

\* Stubs are inserted and the callers run one update operation each, on the
\* same row or on different rows, in any interleaving.
UpdateNext ==
    \/ \E f \in FeedFiles : FeedInsert(f)
    \/ \E c \in Callers, id \in FeedIds : CallUpdate(c, id)
    \/ \E c \in Callers : UpdateCommit(c)

SpecUpdate == StoreInit /\ [][UpdateNext]_vars

\* ================================================================ claims
\* C1: N concurrent add_metadata calls with the same filepath leave exactly
\* one row for that filepath, and every call returns the id of that row.
C1_OneRowOneId ==
    \A c \in Callers :
        calls[c].pc \in {"returned", "done"} =>
            /\ Cardinality({r \in rows : r.filepath = calls[c].fp}) = 1
            /\ \E r \in rows : r.filepath = calls[c].fp /\ r.id = calls[c].ret

\* Three calls for one filepath have returned; one created the row, the
\* others found it.
C1_Witness ==
    \E c1, c2, c3 \in Callers :
        /\ c1 # c2 /\ c2 # c3 /\ c1 # c3
        /\ calls[c1].pc = "done" /\ calls[c2].pc = "done" /\ calls[c3].pc = "done"
        /\ calls[c1].fp = calls[c2].fp /\ calls[c2].fp = calls[c3].fp
        /\ calls[c1].created /\ ~ calls[c2].created /\ ~ calls[c3].created

\* C2: process_all_operations is scheduled only by the call whose insert
\* created the row, so at most once per file; a call whose insert was
\* skipped schedules nothing.
C2_ScheduledOnlyByCreator ==
    \A f \in AllFiles : hist[f].scheduled <= 1 /\ ~ hist[f].skippedScheduled

\* C3: api.getTranscript is invoked at most once for each recording file,
\* across the startup path, the monitor path and restarts.
C3_TranscribedAtMostOnce ==
    \A f \in AllFiles : hist[f].transcribed <= 1

\* C4: no enrichment column of a row that holds a non-null value is later
\* set to NULL.
EnrichmentColumns ==
    {"transcript", "confidence", "incident_type", "address", "latitude",
     "longitude", "formatted_address", "maps_link", "streetview_url",
     "property_owner", "property_price"}

C4_NoColumnBackToNull ==
    [][\A r \in rows : \A q \in rows' :
          q.id = r.id =>
              \A col \in EnrichmentColumns : r[col] # NULL => q[col] # NULL]_vars

\* C5: the batches fetched on successive polls hold every row id of the
\* current bucket inserted after initialisation exactly once: none twice,
\* and none missing once the watermark has passed it.
C5_EachIdInExactlyOneBatch ==
    \A r \in rows :
        (/\ r.date_created = feed.current_date
         /\ feed.last_known_id # NoneId
         /\ r.id > feed.init) =>
            /\ Count(fetched, r.id) <= 1
            /\ (r.id <= feed.last_known_id => Count(fetched, r.id) = 1)

\* C6: every row inserted into the current bucket while a subscriber is
\* connected is eventually emitted in a new_incidents batch (unless the
\* subscribers have all gone), also when an iteration of the loop raises.
C6_InsertedEventuallyEmitted ==
    \A i \in FeedIds : (i \in watched) ~> (i \in emitted \/ clients = 0)

\* C7: right after add_metadata returned an id for a file (the same day,
\* before any update), get_metadata for that file reports already_processed.
C7_VisibleAfterAdd ==
    \A c \in Callers :
        (/\ calls[c].pc = "done"
         /\ calls[c].ret # NoId
         /\ calls[c].pday = calls[c].day) => calls[c].seen

\* C8: for every file that has a row, the row was inserted before the first
\* api.getTranscript call for that file started.
C8_RowBeforeTranscription ==
    \A f \in AllFiles : (\E r \in rows : r.filepath = f) => ~ hist[f].early

\* C9: the midnight rollover (AudioMetadata() re-running _init_database, then
\* seen_files.clear()) deletes and modifies no row, and get_metadata still
\* finds every row afterwards.
C9_RolloverKeepsRows ==
    [][(mu.pc # mu'.pc) =>
          /\ rows' = rows
          /\ \A r \in rows : already_processed(rows', r.filepath, today')]_vars

\* The rollover to the second day has completed over a row of the first day.
C9_Witness ==
    /\ mu = [pc |-> "sleep", day |-> 2]
    /\ \E r \in rows : r.date_created = getFilename(1)

\* C10: add_metadata for a file in bucket B+1 leaves a row of that file in
\* bucket B+1, also when the file already has a row in bucket B.
C10_NewBucketNewRow ==
    \A c \in Callers :
        calls[c].pc \in {"returned", "done"} =>
            \E r \in rows : r.filepath = calls[c].fp /\ r.date_created = calls[c].date

\* C11: within one process lifetime monitor_new_files submits
\* wait_and_process at most once for each file path, whatever the
\* interleaving with midnight_updater's seen_files.clear() and with startup.
C11_SubmittedOncePerLifetime ==
    \A f \in AllFiles : hist[f].submitted <= 1

\* C12: after the day boundary the change feed polls the new current
\* bucket: a row inserted with the new day's date_created beyond the
\* watermark, with a subscriber connected, is eventually broadcast by the
\* running loop (no iteration of which raises).
C12_NewDayRowsBroadcast ==
    \A i \in FeedIds :
        (/\ today > 1
         /\ clients > 0
         /\ faults = 0
         /\ feed.last_known_id # NoneId
         /\ i > feed.last_known_id
         /\ \E r \in rows : r.id = i /\ r.date_created = getFilename(today))
            ~> (i \in emitted \/ clients = 0 \/ faults > 0)

\* C13: every row created with the pending placeholder transcript eventually
\* has it replaced by a real transcript or a failure sentinel, also when the
\* process stops after the stub was committed and is started again.
C13_PlaceholderEventuallyReplaced ==
    \A f \in AllFiles :
        (\E r \in rows : r.filepath = f /\ r.transcript = Placeholder)
            ~> (\E r \in rows : r.filepath = f /\ r.transcript # Placeholder)

\* C14: whenever the transcription of a file failed (api.getTranscript
\* returned None or raised), in the monitor path and in the startup path, the
\* transcript committed for the row is a failure sentinel: not the pending
\* placeholder, not the empty string, not NULL.
NoSentinel == {Placeholder, "", NULL}

C14_FailureCommitsSentinel ==
    /\ \A b \in BagToSet(bg) :
          b.result \in {"none", "raise"} =>
              \A r \in rows : r.id = b.id => r.transcript \notin NoSentinel
    /\ \A f \in st.files :
          (st.pf[f].pc = "added" /\ st.pf[f].res.result \in {"none", "raise"}) =>
              \A r \in rows : r.filepath = f => r.transcript \notin NoSentinel

\* C15: each update operation changes only the columns of its own field
\* group on the row with the given id; the raw attributes, filename,
\* filepath, date_created, the columns of every other group and all other
\* rows stay as they are.
FieldGroup ==
    [ transcribe |-> {"transcript", "confidence", "address"},
      classify   |-> {"incident_type"},
      geocode    |-> {"latitude", "longitude", "formatted_address", "maps_link"},
      streetview |-> {"streetview_url"},
      property   |-> {"property_owner", "property_price"} ]

C15_UpdateTouchesOwnGroupOnly ==
    [][\A b \in BagToSet(bg) :
          CopiesIn(b, bg') < CopiesIn(b, bg) =>
              /\ {q.id : q \in rows'} = {r.id : r \in rows}
              /\ \A r \in rows : \A q \in rows' :
                    q.id = r.id =>
                        /\ r.id # b.id => q = r
                        /\ \A col \in (DOMAIN r) \ FieldGroup[b.pc] : q[col] = r[col]]_vars

\* Two rows, one of them written by all five update operations, the other
\* still the stub.
C15_Witness ==
    \E r, q \in rows :
        /\ r.id # q.id
        /\ r.transcript = "units responding"
        /\ r.incident_type = "Medical"
        /\ r.maps_link # NULL
        /\ r.streetview_url # NULL
        /\ r.property_owner = "OWNER"
        /\ q.transcript = Placeholder

\* C16: add_metadata for a filepath that already has a row changes no
\* column of that row, whatever values the call carries, and adds no row.
C16_ExistingRowUntouched ==
    [][\A c \in Callers :
          (/\ calls[c].pc = "insert"
           /\ calls'[c].pc = "result"
           /\ Conflict(rows, calls[c].fp)) => rows' = rows]_vars

\* A call that carried another transcript and a location than the row its
\* filepath already had has returned.
C16_Witness ==
    \E c \in Callers : \E r \in rows :
        /\ calls[c].pc = "done"
        /\ ~ calls[c].created
        /\ r.filepath = calls[c].fp
        /\ r.transcript # CallValues(c, calls[c].fp, calls[c].date).transcript
        /\ r.latitude # CallValues(c, calls[c].fp, calls[c].date).latitude

\* C17: for every store state and watermark w, the rows the pull handlers
\* send (get_incidents) include every row of the current bucket that the
\* push path would deliver for ids > w.
C17_PullCoversPush ==
    \A w \in 0..nextId :
        Ids(NewRecords(rows, feed.current_date, w))
            \subseteq Ids(get_incidents(rows, feed.current_date))

\* C18: after an enrichment stage commits an update to a row that was
\* broadcast as a stub, connected subscribers are eventually sent the row's
\* updated content.
C18_UpdatesEventuallySent ==
    \A i \in FeedIds :
        (/\ clients > 0
         /\ i \in emitted
         /\ \E r \in rows : r.id = i /\ r.transcript # Placeholder)
            ~> (\/ clients = 0
                \/ \E r \in rows : /\ r.id = i
                                    /\ i \in DOMAIN view
                                    /\ view[i] = Content(r.transcript))

\* C19: a file is passed to ingestion (process_file_progressive in the
\* monitor path, process_file in the startup path) only after
\* wait_until_file_complete saw its size unchanged for the quiescence window.
C19_IngestedOnlyWhenSettled ==
    /\ \A t \in BagToSet(wp) :
          t.pc \in {"get", "add"} => t.stable >= QuiescenceReads
    /\ st.pc = "pool" => st.files \subseteq st.settled

\* C20: while one discovered file never stabilizes, monitor_new_files keeps
\* scanning and every other file of today's folder that has stabilized is
\* eventually passed to process_file_progressive.
C20_SiblingsStillProcessed ==
    \A g \in FeedFiles :
        (/\ st.pc = "monitor"
         /\ g \in GetAllFilesForToday(disk, today)
         /\ ~ fs[g].open
         /\ \/ g \notin seen_files
            \/ \E t \in BagToSet(wp) : t.fp = g /\ t.pc \in {"wait", "watch"})
            ~> (\E t \in BagToSet(wp) : t.fp = g /\ t.pc = "get")

\* One file is still written and its watcher, having read a new size, waits
\* on; the watcher of a closed sibling has returned and
\* process_file_progressive is called for it.
C20_Witness ==
    \E e, g \in FeedFiles :
        /\ e # g
        /\ fs[e].open /\ fs[e].grown
        /\ \E t \in BagToSet(wp) : t.fp = e /\ t.pc = "watch"
        /\ ~ fs[g].open
        /\ \E t \in BagToSet(wp) : t.fp = g /\ t.pc = "get"

\* C21: a file that disappears at any point while wait_until_file_complete
\* checks it does not make the worker fail: no wait_and_process task ends
\* with an exception.
C21_VanishedFileNeverFailsWorker ==
    \A t \in BagToSet(wp) : t.pc # "failed"

\* C22: every row's incident_type is non-null and a member of
\* incident_helper.LABELS, whatever the classification collaborator returns
\* or raises.
C22_IncidentTypeIsALabel ==
    /\ \A r \in rows : r.incident_type # NULL /\ r.incident_type \in LABELS
    /\ ClassifierRange \subseteq LABELS

\* One row was classified with a label, another kept "unknown" after its
\* transcript was committed and its classification was over.
C22_Witness ==
    \E r, q \in rows :
        /\ r.incident_type = "Medical"
        /\ q.incident_type = "unknown"
        /\ q.transcript = "units responding"
        /\ \A b \in BagToSet(bg) : b.id = q.id => b.pc \notin {"transcribe", "classify"}

\* C23: after the geocode stage the columns latitude, longitude,
\* formatted_address and maps_link of a row are all non-null or all NULL,
\* for every result geocode_newton can return.
C23_LocationGroupAllOrNothing ==
    \A r \in rows :
        LET group == {r.latitude, r.longitude, r.formatted_address, r.maps_link}
        IN group = {NULL} \/ NULL \notin group

\* C24: in both ingestion paths the result of a completed enrichment stage
\* is in the store when the process dies afterwards: the transcript a
\* finished transcription returned is in the file's row after the crash
\* (for a file that was handed to the background pool once).
C24_CompletedStageSurvivesCrash ==
    [][crashes' > crashes =>
          /\ \A b \in BagToSet(bg) :
                (b.result = "dict" /\ hist[b.fp].scheduled = 1) =>
                    \E r \in rows' : r.id = b.id /\ r.transcript = b.transcript
          /\ \A f \in st.files :
                (st.pf[f].pc = "result" /\ st.pf[f].res.result = "dict") =>
                    \E r \in rows' : /\ r.filepath = f
                                      /\ r.transcript = st.pf[f].res.transcript]_vars

\* C25: no failure while processing one file (here: the file vanishing)
\* propagates out of that file's processing: the startup pass and the
\* watcher loop go on, and only a store failure halts the system.
C25_FileFailureNeverHalts ==
    st.pc # "halted"

\* C26: when the classification collaborator raises or is unavailable for a
\* row with a non-empty transcript, the row's incident_type stays "unknown"
\* and the task goes on to the geocode stage with its address, so that the
\* geocode, imagery and parcel stages run when their dependencies are met.
ClassificationFails(b, t) ==
    \/ Classify(b, "raise")
    \/ Classify(b, classify_incident(t, LLMRaise))

StagesGoOn(b) ==
    \E c \in BagToSet(bg') :
        /\ c.id = b.id
        /\ c.pc = "geocode"
        /\ c.address = b.address

KeywordLabels(t) == {"unknown", t.rule, t.syn} \ {NULL}

C27_ContendedWriteNotDropped ==
    \A b \in BagToSet(bg) :
        /\ b.id # NoId
        /\ b.pc # "transcribe" =>
               \E r \in rows : r.id = b.id /\ r.transcript # Placeholder

C29_RowsRespectStageDependencies ==
    \A r \in rows :
        /\ (r.streetview_url # NULL \/ r.property_owner # NULL \/ r.property_price # NULL)
               => (r.latitude # NULL /\ r.longitude # NULL)
        /\ r.latitude # NULL => r.address # NULL

\* C30: last_known_id of enhanced_monitor_database never decreases, and
\* after every non-empty fetch it equals the largest id of the fetched batch.
LargestId(rs) == CHOOSE m \in Ids(rs) : \A i \in Ids(rs) : i <= m

C30_WatermarkIsLargestFetchedId ==
    [][/\ feed'.last_known_id >= feed.last_known_id
       /\ (feed.pc = "fetch" /\ feed'.pc = "emit") =>
              feed'.last_known_id = LargestId(feed'.batch)]_vars

\* C31: row ids are handed out in strictly increasing order of insert commit
\* and never again: a row that becomes visible carries an id greater than
\* every id of the table before it, and when it enters the bucket the poll
\* loop watches, greater than every id a poll of that bucket has read
\* (MAX(id), the watermark, the ids of the fetched batches).
C31_NewRowAboveObservedIds ==
    [][\A r \in rows' \ rows :
          /\ \A x \in rows : x.id < r.id
          /\ r.id < nextId'
          /\ nextId <= r.id
          /\ (r.date_created = feed.current_date /\ feed.last_known_id # NoneId) =>
                /\ r.id > feed.current_max_id
                /\ r.id > feed.last_known_id
                /\ \A i \in DOMAIN fetched :
                      (\E x \in rows : x.id = i /\ x.date_created = r.date_created)
                          => i < r.id]_vars

\* A row was inserted into the watched bucket after a poll had read MAX(id)
\* of that bucket with a row in it.
C31_Witness ==
    /\ feed.last_known_id # NoneId
    /\ feed.current_max_id > 0
    /\ \E r \in rows :
          r.date_created = feed.current_date /\ r.id > feed.current_max_id

\* C32: every discovered file that stabilizes is eventually ingested, also
\* when as many discovered files as the watcher pool has workers never
\* stabilize: a recording of today's folder that monitor_new_files has
\* found and that is written no more eventually has its row.
C32_StableFileIngestedWithBusyPool ==
    \A g \in FeedFiles :
        (g \in seen_files /\ g \in disk /\ ~ fs[g].open)
            ~> (\E r \in rows : r.filepath = g)

\* C33: every Middlesex recording written under a day's folder is eventually
\* discovered and ingested (its row is in the store), also a recording that
\* appears in a day's folder after the last scan of that folder, when the
\* next scan already lists the folder of the day after.
C33_EveryRecordingEventuallyIngested ==
    \A f \in AllFiles :
        (f \in disk /\ get_system(f) = "Middlesex")
            ~> (\E r \in rows : r.filepath = f)

\* C34: a connected client receives every row of the current bucket in its
\* initial_data snapshot or in a later new_incidents batch: once the poll
\* loop's watermark has reached a row's id and no batch holding the row
\* waits to be emitted, the row has been delivered (no iteration of the
\* loop having raised).
C34_ConnectedClientReceivesEveryRow ==
    \A r \in rows :
        (/\ clients > 0
         /\ faults = 0
         /\ r.date_created = feed.current_date
         /\ feed.last_known_id # NoneId
         /\ r.id <= feed.last_known_id
         /\ r.id \notin Ids(feed.batch)) =>
            r.id \in DOMAIN view

\* C35: at most one enhanced_monitor_database thread is running at any
\* time, however the connect events of several clients interleave.
C35_AtMostOneMonitorThread == Cardinality(feed.alive) <= 1

\* C36: _init_database on a table with several rows of one non-NULL
\* filepath leaves exactly the row with the greatest id for each such
\* filepath, leaves the rows with a NULL filepath and the rows with a
\* filepath of their own as they are, adds no row, and a second run
\* changes nothing.
C36_DedupeKeepsNewestOnly ==
    [][OpenStore =>
        /\ rows' \subseteq rows
        /\ \A r \in rows :
              LET same == {x \in rows : x.filepath = r.filepath}
              IN IF r.filepath # NullPath /\ Cardinality(same) > 1
                 THEN (r \in rows') <=> (\A x \in same : x.id <= r.id)
                 ELSE r \in rows'
        /\ init_database(rows') = rows']_vars

\* _init_database has removed the older rows of a filepath and kept one,
\* in a table that also holds a row with a NULL filepath and a row with a
\* filepath of its own.
C36_Witness ==
    /\ \E f \in Files :
          /\ hist[f].removed > 0
          /\ Cardinality({r \in rows : r.filepath = f}) = 1
    /\ \E r \in rows : r.filepath = NullPath
    /\ \E f \in Files :
          /\ hist[f].removed = 0
          /\ \E r \in rows : r.filepath = f

====
